---- MODULE Spec2Model ----
(***************************************************************************)
(* Model of the Alma Telegram bridge plugin (src/src/main.ts): the state   *)
(* of the closure created by activate(), the long-polling loop             *)
(* (startPolling / pollLoop / stopPolling) and the callback and message    *)
(* handlers it dispatches to.                                              *)
(*                                                                         *)
(* Every asynchronous function is cut at its awaits: one action runs the   *)
(* code from the resolution of one await to the next await.  A "chain" is  *)
(* one thread of control started by a call of startPolling that passed     *)
(* its guard: startPolling, then pollLoop, then the timer that calls       *)
(* pollLoop again.                                                         *)
(*                                                                         *)
(* The payload of an update is drawn when its dispatch begins; nothing in  *)
(* the program reads it earlier, so this is the same as drawing it when    *)
(* the batch is fetched.                                                   *)
(***************************************************************************)
EXTENDS Integers, Sequences, FiniteSets, TLC

\* ------------------------------------------------------------------ bounds
MaxUpdateId == 2
MaxBatch == 2
MaxThreads == 2
MaxMessages == 7
MaxParam == 1
MaxChains == 2
MaxActions == 4
MaxCache == 12
MaxPage == 3
MaxMessageId == 3
MaxExcess == 1
MaxOver == 2

\* ------------------------------------------------------- program constants
ThreadCacheLimit == 50

Null == 0
NaN == -1

Threads == 1..MaxThreads
UpdateIds == 1..(IF MaxUpdateId >= MaxActions THEN MaxUpdateId ELSE MaxActions)
Chains == 1..MaxChains

VARIABLES
    config,            \* settings read at activation
    isPolling,
    pollingTimer,      \* Null or the chain whose timer the handle refers to
    lastUpdateId,
    selectedThreadId,
    cachedThreads,
    cachedMessages,
    messagePageIndex,
    stored,            \* context.storage.local 'selectedThreadId'
    activationTimer,   \* the setTimeout of activate() is pending
    subscribed,        \* the chat.message.didReceive subscription is live
    chain,             \* the threads of control of the session loop
    dispatched,        \* history: how often each update id was dispatched
    startTick,         \* history: flips at every call of startPolling
    stopCalled,        \* history: stopPolling was called
    refreshed,         \* history: refresh was dispatched and no select since
    outText,           \* the text truncated last
    replace,           \* the call of replaceMessage in progress
    trail,             \* history: the page actions acknowledged last
    reply,             \* the handler of chat.message.didReceive
    keyboard           \* the inline keyboard built last

vars == <<config, isPolling, pollingTimer, lastUpdateId, selectedThreadId,
          cachedThreads, cachedMessages, messagePageIndex, stored,
          activationTimer, subscribed, chain, dispatched, startTick,
          stopCalled, refreshed, outText, replace, trail, reply, keyboard>>

session == <<selectedThreadId, cachedThreads, cachedMessages, messagePageIndex>>

program == <<config, isPolling, pollingTimer, lastUpdateId, selectedThreadId,
             cachedThreads, cachedMessages, messagePageIndex, stored,
             activationTimer, subscribed, chain>>

\* ------------------------------------------------------------------ helpers
Max(a, b) == IF a >= b THEN a ELSE b

Min(a, b) == IF a <= b THEN a ELSE b

RECURSIVE SeqMax(_)
SeqMax(s) == IF s = <<>> THEN 0 ELSE Max(Head(s), SeqMax(Tail(s)))

\* sequences of distinct ids drawn from S, of length at most n
RECURSIVE DistinctSeqs(_, _)
DistinctSeqs(S, n) ==
    IF n = 0 \/ S = {} THEN {<<>>}
    ELSE {<<>>} \cup UNION {{<<x>> \o t : t \in DistinctSeqs(S \ {x}, n - 1)} : x \in S}

\* text and keyboard of one outbound message
Content(kind, a, b) == [kind |-> kind, a |-> a, b |-> b, keys |-> <<>>]

\* the same message with an inline keyboard
Keyed(content, rows) == [content EXCEPT !.keys = rows]

NoContent == Content("none", 0, 0)

Call(op, content, ok) == [op |-> op, content |-> content, ok |-> ok]

\* a call of the host API chat.* with its argument or its answer
HostCall(op, value, ok) == Call(op, Content("host", value, 0), ok)

\* the log of calls with one more call
Logged(r, call) == [r EXCEPT !.out = Append(r.out, call)]

\* ------------------------------------------------------------------ updates
Verbs == {"menu", "threads", "select", "messages", "m", "p", "msg", "v",
          "current", "refresh", "debug", "other"}

\* the arguments a callback can carry: none (or not a number), the first index
\* or page, and a later one
Params == {NaN, 0, MaxParam}

CallbackUpdate(hasMsg, action, param) ==
    [kind |-> "callback", hasMsg |-> hasMsg, action |-> action, param |-> param,
     text |-> "none", chatOk |-> TRUE]

MessageUpdate(text, chatOk) ==
    [kind |-> "message", hasMsg |-> FALSE, action |-> "other", param |-> NaN,
     text |-> text, chatOk |-> chatOk]

NoUpdate == MessageUpdate("none", FALSE)

\* a callback query whose message belongs to a chat other than the
\* configured one; handleCallback (lines 365-375) reads query.data and
\* query.message.message_id only
ForeignCallback(action) == [CallbackUpdate(TRUE, action, NaN) EXCEPT !.chatOk = FALSE]

\* the verbs whose buttons carry an argument (lines 265-266, 290, 296-299, 338, 346-351)
ArgVerbs == {"threads", "select", "messages", "m", "p", "msg", "v"}

Updates ==
    {CallbackUpdate(TRUE, a, p) : a \in ArgVerbs, p \in Params}
    \cup {CallbackUpdate(TRUE, a, NaN) : a \in Verbs \ ArgVerbs}
    \cup {CallbackUpdate(FALSE, a, NaN) : a \in {"other", "refresh"}}
    \cup {MessageUpdate(t, TRUE) : t \in {"none", "/start", "/ping", "/other", "plain"}}
    \cup {MessageUpdate("plain", FALSE)}
    \cup {ForeignCallback("refresh")}

\* parseInt(param) || 0
PageOf(param) == IF param = NaN THEN 0 ELSE param

\* ------------------------------------------------------------------- chains
IdleChain ==
    [pc |-> "unused", batch |-> <<>>, i |-> 0, upd |-> NoUpdate,
     content |-> NoContent, ackText |-> "none", out |-> <<>>,
     pre |-> <<Null, <<>>, <<>>, 0>>, from |-> 0, thread |-> Null,
     outcome |-> "none", fetchFailed |-> FALSE]

\* lines 647-663: the handler of chat.message.didReceive is not running
IdleReply == [pc |-> "idle"]

\* lines 231-242: replaceMessage is not running
IdleReplace == [pc |-> "idle", messageId |-> 0, out |-> <<>>, result |-> FALSE]

\* no text has been truncated
NoText == [fn |-> "none", len |-> 0, sent |-> [units |-> 0, marker |-> FALSE]]

\* no inline keyboard has been built
NoKeyboard == [fn |-> "none", page |-> 0, rows |-> <<>>]

Init ==
    /\ config \in [token : BOOLEAN, chatId : BOOLEAN, almaThreadId : {Null, 1}]
    /\ isPolling = FALSE
    /\ pollingTimer = Null
    /\ lastUpdateId = 0
    /\ selectedThreadId = config.almaThreadId
    /\ cachedThreads = <<>>
    /\ cachedMessages = <<>>
    /\ messagePageIndex = 0
    /\ stored \in {Null, MaxThreads}
    /\ activationTimer = TRUE
    /\ subscribed = TRUE
    /\ chain = [c \in Chains |-> IdleChain]
    /\ dispatched = [u \in UpdateIds |-> 0]
    /\ startTick = FALSE
    /\ stopCalled = FALSE
    /\ refreshed = FALSE
    /\ outText = NoText
    /\ replace = IdleReplace
    /\ trail = <<>>
    /\ reply = IdleReply
    /\ keyboard = NoKeyboard

\* --------------------------------------------------------- session loop
\* startPolling guarded by the token only
StartGuard_NoFlag == ~config.token

\* line 599: if (isPolling || !config.telegramBotToken) return;
StartGuard == isPolling \/ ~config.token

\* the fetch asks again for the update the cursor stands on
FetchOffset_NoPlusOne == lastUpdateId

\* line 253: offset: lastUpdateId + 1
FetchOffset == lastUpdateId + 1

\* the cursor follows the last update instead of the highest
CursorAfter_Assign(cursor, id) == id

\* line 628: lastUpdateId = Math.max(lastUpdateId, update.update_id)
CursorAfter(cursor, id) == Max(cursor, id)

\* the for loop skips every other update
NextIndex_Skip(i) == i + 2

\* line 627: for (const update of updates)
NextIndex(i) == i + 1

\* the poll cycle rearms its timer without looking at the flag
RescheduleGuard_Always == TRUE

\* line 634: if (isPolling)
RescheduleGuard == isPolling

\* line 257: response.ok && response.result ? response.result : []
\* what the remote source can answer to a request with the given offset
Batches(offset) == DistinctSeqs(Max(offset, 1)..MaxUpdateId, MaxBatch)

FreeChain == CHOOSE c \in Chains : chain[c].pc = "unused"
                                   /\ \A d \in Chains : chain[d].pc = "unused" => c <= d

\* lines 623-626: pollLoop up to the getUpdates request
PollLoopEnter(r) ==
    IF ~isPolling THEN [r EXCEPT !.pc = "done"]
    ELSE [r EXCEPT !.pc = "getUpdates", !.from = FetchOffset, !.batch = <<>>, !.i = 0]

\* the locals of a handler go out of scope when the poll cycle ends
Forget(r) == [r EXCEPT !.upd = NoUpdate, !.content = NoContent, !.ackText = "none",
                       !.out = <<>>, !.pre = IdleChain.pre, !.thread = Null,
                       !.fetchFailed = FALSE]

\* lines 634-636: the end of one poll cycle
Finish(c, r) ==
    IF RescheduleGuard
    THEN /\ chain' = [chain EXCEPT ![c] = [Forget(r) EXCEPT !.pc = "timer"]]
         /\ pollingTimer' = c
    ELSE /\ chain' = [chain EXCEPT ![c] = [Forget(r) EXCEPT !.pc = "done"]]
         /\ UNCHANGED pollingTimer

\* a handler returns: the for loop of pollLoop goes on with the next update
Return(r) == [Forget(r) EXCEPT !.pc = "loop", !.i = NextIndex(r.i), !.outcome = "ok"]

\* pollLoop without its try/catch: the error ends the loop for good
Throw_Uncaught(c, r) ==
    /\ chain' = [chain EXCEPT ![c] = [Forget(r) EXCEPT !.pc = "done", !.outcome = "threw"]]
    /\ UNCHANGED pollingTimer

\* lines 631-633: an error raised by a handler ends the for loop
Throw(c, r) == Finish(c, [r EXCEPT !.outcome = "threw"])

\* lines 598-600: startPolling up to its first await
startPolling ==
    /\ startTick' = ~startTick
    /\ IF StartGuard
       THEN UNCHANGED <<isPolling, chain>>
       ELSE /\ isPolling' = TRUE
            /\ chain' = [chain EXCEPT ![FreeChain].pc = "deleteWebhook"]
    /\ UNCHANGED <<config, pollingTimer, lastUpdateId, selectedThreadId, cachedThreads,
                   cachedMessages, messagePageIndex, stored, subscribed, dispatched,
                   stopCalled, refreshed, outText, replace, trail, reply, keyboard>>

\* lines 665-668: the delayed start scheduled by activate()
ActivationTimerFires ==
    /\ activationTimer
    /\ activationTimer' = FALSE
    /\ startPolling

\* startPolling called once more, after the delayed start and before dispose()
StartCall ==
    /\ subscribed
    /\ ~activationTimer
    /\ StartGuard \/ \E c \in Chains : chain[c].pc = "unused"
    /\ UNCHANGED activationTimer
    /\ startPolling

\* line 601: deleteWebhook answered; its answer is not looked at
DeleteWebhookResolve(c) ==
    /\ chain[c].pc = "deleteWebhook"
    /\ chain' = [chain EXCEPT ![c] =
          [Logged(@, Call("deleteWebhook", NoContent, TRUE)) EXCEPT !.pc = "setMyCommands"]]
    /\ UNCHANGED <<config, isPolling, pollingTimer, lastUpdateId, selectedThreadId,
                   cachedThreads, cachedMessages, messagePageIndex, stored,
                   activationTimer, subscribed, dispatched, startTick, stopCalled,
                   refreshed, outText, replace, trail, reply, keyboard>>

\* pollLoop is called before the persisted selection is read
AfterCommands_Poll(r) == PollLoopEnter(r)

\* lines 612-613: startPolling goes on to await context.storage.local.get
AfterCommands(r) == [r EXCEPT !.pc = "storageGet"]

\* lines 604-610: setMyCommands answered; its answer is not looked at
SetMyCommandsResolve(c) ==
    /\ chain[c].pc = "setMyCommands"
    /\ chain' = [chain EXCEPT ![c] =
          AfterCommands(Logged(@, Call("setMyCommands", NoContent, TRUE)))]
    /\ UNCHANGED <<config, isPolling, pollingTimer, lastUpdateId, selectedThreadId,
                   cachedThreads, cachedMessages, messagePageIndex, stored,
                   activationTimer, subscribed, dispatched, startTick, stopCalled,
                   refreshed, outText, replace, trail, reply, keyboard>>

\* the stored value is assigned without looking at it
Restored_Unchecked(ok) == IF ok THEN stored ELSE selectedThreadId

\* lines 613-617: if (savedThreadId) selectedThreadId = savedThreadId; a failed
\* read is swallowed
Restored(ok) == IF ok /\ stored # Null THEN stored ELSE selectedThreadId

\* lines 612-620: storage read answered (or failed), then pollLoop(); the log
\* tells that the read has completed, not what it returned
StorageGetResolve(c, ok) ==
    /\ chain[c].pc = "storageGet"
    /\ selectedThreadId' = Restored(ok)
    /\ chain' = [chain EXCEPT ![c] =
          PollLoopEnter(Logged(@, Call("storageGet", NoContent, TRUE)))]
    /\ UNCHANGED <<config, isPolling, pollingTimer, lastUpdateId, cachedThreads,
                   cachedMessages, messagePageIndex, stored, activationTimer,
                   subscribed, dispatched, startTick, stopCalled, refreshed, outText,
                   replace, trail, reply, keyboard>>

\* line 635: the timer armed by pollLoop fires and calls pollLoop
TimerFires(c) ==
    /\ chain[c].pc = "timer"
    /\ chain' = [chain EXCEPT ![c] = PollLoopEnter(chain[c])]
    /\ UNCHANGED <<config, isPolling, pollingTimer, lastUpdateId, selectedThreadId,
                   cachedThreads, cachedMessages, messagePageIndex, stored,
                   activationTimer, subscribed, dispatched, startTick, stopCalled,
                   refreshed, outText, replace, trail, reply, keyboard>>

\* line 626: pollLoop goes on with the batch that getUpdates returned; the log
\* of the calls of the start ends here
Fetched(c, batch) ==
    /\ chain[c].pc = "getUpdates"
    /\ chain' = [chain EXCEPT ![c] = [@ EXCEPT !.pc = "loop", !.batch = batch,
                                               !.i = NextIndex(0), !.out = <<>>]]
    /\ UNCHANGED <<config, isPolling, pollingTimer, lastUpdateId, selectedThreadId,
                   cachedThreads, cachedMessages, messagePageIndex, stored,
                   activationTimer, subscribed, dispatched, startTick, stopCalled,
                   refreshed, outText, replace, trail, reply, keyboard>>

\* lines 251-258, 626: getUpdates answered with a batch ([] when the request failed)
GetUpdatesResolve(c, batch) ==
    /\ chain[c].pc = "getUpdates"
    /\ batch \in Batches(chain[c].from)
    /\ Fetched(c, batch)

\* line 257: the remote source hands over the taps of the user one per poll
\* cycle, in the order of their ids
Arrivals(offset) == IF offset <= MaxActions THEN {<<offset>>} ELSE {<<>>}

\* lines 251-258, 626: getUpdates answered with the next tap of the user
GetUpdatesInTurn(c, batch) ==
    /\ chain[c].pc = "getUpdates"
    /\ batch \in Arrivals(chain[c].from)
    /\ Fetched(c, batch)

\* lines 639-645
stopPolling ==
    /\ isPolling' = FALSE
    /\ IF pollingTimer # Null
       THEN /\ chain' = [chain EXCEPT ![pollingTimer].pc =
                            IF @ = "timer" THEN "cancelled" ELSE @]
            /\ pollingTimer' = Null
       ELSE UNCHANGED <<chain, pollingTimer>>

\* lines 671-674: dispose()
Dispose ==
    /\ stopPolling
    /\ subscribed' = FALSE
    /\ stopCalled' = TRUE
    /\ UNCHANGED <<config, lastUpdateId, selectedThreadId, cachedThreads,
                   cachedMessages, messagePageIndex, stored, activationTimer,
                   dispatched, startTick, refreshed, outText, replace, trail, reply, keyboard>>

\* ------------------------------------------------------------ keyboards
\* lines 281, 313: const pageSize = 5
PageSize == 5

\* Array.prototype.slice(start, end): indices from 0, negative ones count
\* from the end, an empty result when start is not before end
Slice(s, start, end) ==
    LET from == IF start < 0 THEN Max(Len(s) + start, 0) ELSE Min(start, Len(s))
        to == IF end < 0 THEN Max(Len(s) + end, 0) ELSE Min(end, Len(s))
    IN  IF from >= to THEN <<>> ELSE SubSeq(s, from + 1, to)

\* Array.prototype.reverse
Reverse(s) == [j \in 1..Len(s) |-> s[Len(s) + 1 - j]]

\* one inline button: its callback_data verb:arg and the cache entry its
\* label is made from (NaN: the data has no argument)
Button(verb, arg, item) == [verb |-> verb, arg |-> arg, item |-> item]

\* the index within the page is taken for the cache index
ThreadIndex_InPage(start, i) == i

\* line 287: const idx = start + i
ThreadIndex(start, i) == start + i

\* the Next control is also shown when the page ends with the cache
HasNextThreads_OffByOne(end) == end <= Len(cachedThreads)

\* line 298: if (end < cachedThreads.length)
HasNextThreads(end) == end < Len(cachedThreads)

\* lines 280-309
createThreadsKeyboard(page) ==
    LET start == page * PageSize
        end == Min(start + PageSize, Len(cachedThreads))
        threads == Slice(cachedThreads, start, end)
        buttons == [j \in 1..Len(threads) |->
                       <<Button("select", ThreadIndex(start, j - 1), threads[j])>>]
        navRow == (IF page > 0 THEN <<Button("threads", page - 1, Null)>> ELSE <<>>)
                  \o (IF HasNextThreads(end) THEN <<Button("threads", page + 1, Null)>>
                      ELSE <<>>)
    IN  buttons \o (IF Len(navRow) > 0 THEN <<navRow>> ELSE <<>>)
                \o <<(<<Button("menu", NaN, Null)>>)>>

\* the buttons count upwards although the page is shown newest first
RealIdx_Ascending(end, i) == end - PageSize + i

\* line 328: const realIdx = end - 1 - i
RealIdx(end, i) == end - 1 - i

\* the Older control is shown although the window starts at the first message
HasOlder_FromZero(start) == start >= 0

\* line 350: if (start > 0)
HasOlder(start) == start > 0

\* the item of a button of a message keyboard that stands for no message
NoMessage == [thread |-> Null, k |-> 0]

\* the window of a page reaches one message into the next older page
WindowStart_Overlap(total, page) == Max(0, total - (page + 1) * PageSize - 1)

\* line 320: const start = Math.max(0, total - (page + 1) * pageSize)
WindowStart(total, page) == Max(0, total - (page + 1) * PageSize)

\* lines 312-363, over the message cache given
MessagesKeyboard(cache, page) ==
    LET total == Len(cache)
        start == WindowStart(total, page)
        end == Max(0, total - page * PageSize)
        messages == Reverse(Slice(cache, start, end))
        buttons == [j \in 1..Len(messages) |->
                       <<Button("v", RealIdx(end, j - 1), messages[j])>>]
        navRow == (IF page > 0 THEN <<Button("p", page - 1, NoMessage)>> ELSE <<>>)
                  \o (IF HasOlder(start) THEN <<Button("p", page + 1, NoMessage)>> ELSE <<>>)
    IN  buttons \o (IF Len(navRow) > 0 THEN <<navRow>> ELSE <<>>)
                \o <<(<<Button("menu", NaN, NoMessage)>>)>>

\* lines 312-363: createMessagesKeyboard reads cachedMessages
createMessagesKeyboard(page) == MessagesKeyboard(cachedMessages, page)

\* lines 443-451: text and keyboard of page `page` of the message list
MessageListContent(cache, page) ==
    Keyed(Content("msglist", page, Len(cache)), MessagesKeyboard(cache, page))

\* lines 428-430: the keyboard of the no-thread-selected prompt
NoThreadKeyboard == <<(<<Button("threads", 0, NoMessage)>>)>>

\* the back button always leads to the first page
DetailKeyboard_FirstPage == <<(<<Button("m", 0, NoMessage)>>),
                              (<<Button("menu", NaN, NoMessage)>>)>>

\* lines 486-491: the keyboard of a message detail
DetailKeyboard == <<(<<Button("m", messagePageIndex, NoMessage)>>),
                    (<<Button("menu", NaN, NoMessage)>>)>>

\* ------------------------------------------------------------- handlers
\* lines 377-543: the branch of the if-chain of handleCallback a verb selects
Branch(a) ==
    IF a \in {"messages", "m", "p"} THEN "messages"
    ELSE IF a \in {"msg", "v"} THEN "view"
    ELSE IF a \in {"menu", "threads", "select", "current", "refresh", "debug"} THEN a
    ELSE "other"

\* lines 400, 471: idx >= 0 && idx < cache.length (false for NaN)
InBounds(idx, cache) == idx >= 0 /\ idx < Len(cache)

\* the whole listing of the host is cached
SliceThreads_All(listing) == listing

\* line 385: threads.slice(0, 50)
SliceThreads(listing) == SubSeq(listing, 1, Min(Len(listing), ThreadCacheLimit))

\* what chat.listThreads() can return: no thread, or threads 1..MaxThreads
Listings == {[k \in 1..n |-> k] : n \in {0, MaxThreads}}

\* line 384: the listing of a host with n threads, in the order of the host
HostListing(n) == [k \in 1..n |-> k]

\* line 384: chat.listThreads() of a host with more threads than are cached
LongListings == {HostListing(ThreadCacheLimit + MaxExcess)}

\* what chat.getActiveThread() can return
ActiveThreads == {Null, 1, MaxThreads}

\* what chat.getMessages(threadId) can return: no message, or MaxMessages of them
MessageLists(t) == {[k \in 1..n |-> [thread |-> t, k |-> k]] : n \in {0, MaxMessages}}

\* line 190: sendMessage gives up without a request when token or chat id is missing
SendResults == IF config.token /\ config.chatId THEN BOOLEAN ELSE {FALSE}

\* lines 417, 522: the notice passed to answerCallback after a successful render
AckTextOf(action) ==
    IF action = "select" THEN "Selected!"
    ELSE IF action = "refresh" THEN "Refreshed!" ELSE ""

\* lines 456-460: only the message list falls back to sendMessage
FallsBack(content, ok) == content.kind = "msglist" /\ ~ok

\* the messages are fetched at every page action
CacheEmpty_Always == TRUE

\* line 437: if (cachedMessages.length === 0)
CacheEmpty == cachedMessages = <<>>

\* the prompt is never shown
NoThread_Never(threadId) == FALSE

\* line 427: if (!threadId)
NoThread(threadId) == threadId = Null

\* lines 435-452: the try block of the messages action, entered with threadId
MessagesTry(r, threadId) ==
    IF CacheEmpty
    THEN [r EXCEPT !.pc = "getMessages", !.thread = threadId]
    ELSE [r EXCEPT !.pc = "editMessage", !.thread = threadId,
                   !.content = MessageListContent(cachedMessages, PageOf(r.upd.param))]

\* refresh that leaves the thread listing in place
RefreshedThreads_Keep == cachedThreads

\* line 518: cachedThreads = []
RefreshedThreads == <<>>

\* line 519: cachedMessages = []
RefreshedMessages == <<>>

\* refresh that leaves the selection in place
RefreshedSelection_Keep == selectedThreadId

\* line 520: selectedThreadId = null
RefreshedSelection == Null

\* lines 517-523: messagePageIndex is not assigned by the refresh action
RefreshedPage == messagePageIndex

\* lines 398-401, 517-520: whether the last of refresh and in-bounds select
\* that was dispatched is a refresh
RefreshedAfter(u) ==
    IF u.kind = "callback" /\ u.hasMsg /\ Branch(u.action) = "refresh" THEN TRUE
    ELSE IF u.kind = "callback" /\ u.hasMsg /\ Branch(u.action) = "select"
            /\ InBounds(u.param, cachedThreads) THEN FALSE
    ELSE refreshed

\* the host is asked for its active thread whatever the selection
HasSelection_Never == FALSE

\* line 426: selectedThreadId || ...
HasSelection == selectedThreadId # Null

\* the callback without a message reference is handled like any other
AckOnly_VerbOnly(u) == u.action = "other"

\* lines 369-372, 543-545: nothing to do but to acknowledge the callback
AckOnly(u) == ~u.hasMsg \/ u.action = "other"

\* lines 365-546: handleCallback up to its first await
HandleCallbackStart(c, r) ==
    LET u == r.upd
        a == u.action
    IN  IF AckOnly(u)
        THEN /\ chain' = [chain EXCEPT ![c] = [r EXCEPT !.pc = "answerCallback", !.ackText = ""]]
             /\ UNCHANGED <<selectedThreadId, cachedThreads, cachedMessages, messagePageIndex,
                            pollingTimer>>
        ELSE IF a = "menu"
        THEN /\ chain' = [chain EXCEPT ![c] = [r EXCEPT !.pc = "editMessage",
                                                         !.content = Content("menu", 0, 0)]]
             /\ UNCHANGED <<selectedThreadId, cachedThreads, cachedMessages, messagePageIndex,
                            pollingTimer>>
        ELSE IF a = "threads"
        THEN /\ chain' = [chain EXCEPT ![c] = [r EXCEPT !.pc = "listThreads"]]
             /\ UNCHANGED <<selectedThreadId, cachedThreads, cachedMessages, messagePageIndex,
                            pollingTimer>>
        ELSE IF a = "select"
        THEN IF InBounds(u.param, cachedThreads)
             THEN /\ selectedThreadId' = cachedThreads[u.param + 1]
                  /\ chain' = [chain EXCEPT ![c] = [r EXCEPT !.pc = "storageSet",
                                                     !.thread = cachedThreads[u.param + 1]]]
                  /\ UNCHANGED <<cachedThreads, cachedMessages, messagePageIndex, pollingTimer>>
             ELSE /\ chain' = [chain EXCEPT ![c] = Return(r)]
                  /\ UNCHANGED <<selectedThreadId, cachedThreads, cachedMessages,
                                 messagePageIndex, pollingTimer>>
        ELSE IF a = "messages"
        THEN /\ messagePageIndex' = PageOf(u.param)
             /\ chain' = [chain EXCEPT ![c] =
                            IF HasSelection
                            THEN MessagesTry(r, selectedThreadId)
                            ELSE [r EXCEPT !.pc = "getActiveThread"]]
             /\ UNCHANGED <<selectedThreadId, cachedThreads, cachedMessages, pollingTimer>>
        ELSE IF a = "view"
        THEN /\ chain' = [chain EXCEPT ![c] =
                            IF InBounds(u.param, cachedMessages)
                            THEN [r EXCEPT !.pc = "editMessage",
                                           !.content = Keyed(Content("detail", u.param,
                                                                     messagePageIndex),
                                                             DetailKeyboard)]
                            ELSE Return(r)]
             /\ UNCHANGED <<selectedThreadId, cachedThreads, cachedMessages, messagePageIndex,
                            pollingTimer>>
        ELSE IF a = "current"
        THEN /\ chain' = [chain EXCEPT ![c] =
                            IF selectedThreadId # Null
                            THEN [r EXCEPT !.pc = "editMessage",
                                           !.content = Content("current", selectedThreadId, 0)]
                            ELSE [r EXCEPT !.pc = "getActiveThread"]]
             /\ UNCHANGED <<selectedThreadId, cachedThreads, cachedMessages, messagePageIndex,
                            pollingTimer>>
        ELSE IF a = "refresh"
        THEN /\ cachedThreads' = RefreshedThreads
             /\ cachedMessages' = RefreshedMessages
             /\ selectedThreadId' = RefreshedSelection
             /\ messagePageIndex' = RefreshedPage
             /\ chain' = [chain EXCEPT ![c] = [r EXCEPT !.pc = "editMessage",
                                                         !.content = Content("refreshed", 0, 0)]]
             /\ UNCHANGED pollingTimer
        ELSE \* debug
             /\ chain' = [chain EXCEPT ![c] = [r EXCEPT !.pc = "editMessage",
                                !.content = Content("debug", Len(cachedThreads),
                                                    Len(cachedMessages))]]
             /\ UNCHANGED <<selectedThreadId, cachedThreads, cachedMessages, messagePageIndex,
                            pollingTimer>>

\* lines 548-588: handleMessage up to its first await; no chat id equals a
\* missing telegramChatId
HandleMessageStart(c, r) ==
    LET u == r.upd
    IN  /\ chain' = [chain EXCEPT ![c] =
                IF u.text = "none" \/ ~(u.chatOk /\ config.chatId) THEN Return(r)
                ELSE [r EXCEPT !.pc = "sendMessage",
                               !.content = IF u.text = "/start" THEN Content("menu", 0, 0)
                                           ELSE IF u.text = "/ping" THEN Content("pong", 0, 0)
                                           ELSE IF u.text = "/other" THEN Content("hint", 0, 0)
                                           ELSE Content("copied", 0, 0)]]
        /\ UNCHANGED <<selectedThreadId, cachedThreads, cachedMessages, messagePageIndex,
                       pollingTimer>>

\* lines 627, 634-636: the for loop of pollLoop has run through the batch
PollLoopEnd(c) ==
    /\ chain[c].pc = "loop"
    /\ chain[c].i > Len(chain[c].batch)
    /\ Finish(c, chain[c])
    /\ UNCHANGED <<config, isPolling, lastUpdateId, selectedThreadId, cachedThreads,
                   cachedMessages, messagePageIndex, stored, activationTimer, subscribed,
                   dispatched, startTick, stopCalled, refreshed, outText, replace, trail,
                   reply, keyboard>>

\* lines 627-629, 590-596: the for loop of pollLoop takes the next update
Dispatch(c, u) ==
    /\ chain[c].pc = "loop"
    /\ chain[c].i <= Len(chain[c].batch)
    /\ LET id == chain[c].batch[chain[c].i]
           r == [chain[c] EXCEPT !.upd = [u EXCEPT !.action = Branch(u.action)],
                                 !.out = <<>>, !.pre = session,
                                 !.content = NoContent, !.ackText = "none",
                                 !.thread = Null, !.fetchFailed = FALSE,
                                 !.outcome = "none"]
       IN  /\ lastUpdateId' = CursorAfter(lastUpdateId, id)
           /\ dispatched' = [dispatched EXCEPT ![id] = Min(@ + 1, 2)]
           /\ refreshed' = RefreshedAfter(u)
           /\ IF u.kind = "callback" THEN HandleCallbackStart(c, r)
                                     ELSE HandleMessageStart(c, r)
    /\ UNCHANGED <<config, isPolling, stored, activationTimer, subscribed, startTick,
                   stopCalled, outText, replace, trail, reply, keyboard>>

\* lines 384-396: chat.listThreads() answered or failed
ListThreadsResolve(c, ok, listing) ==
    /\ chain[c].pc = "listThreads"
    /\ IF ok
       THEN /\ cachedThreads' = SliceThreads(listing)
            /\ chain' = [chain EXCEPT ![c] =
                  [Logged(@, HostCall("listThreads", Len(listing), TRUE))
                      EXCEPT !.pc = "editMessage",
                             !.content = Content("threads", PageOf(chain[c].upd.param),
                                                 Len(SliceThreads(listing)))]]
       ELSE /\ chain' = [chain EXCEPT ![c] =
                  [Logged(@, HostCall("listThreads", 0, FALSE))
                      EXCEPT !.pc = "answerCallback",
                             !.ackText = "Error loading threads", !.fetchFailed = TRUE]]
            /\ UNCHANGED cachedThreads
    /\ UNCHANGED <<config, isPolling, pollingTimer, lastUpdateId, selectedThreadId,
                   cachedMessages, messagePageIndex, stored, activationTimer, subscribed,
                   dispatched, startTick, stopCalled, refreshed, outText, replace, trail,
                   reply, keyboard>>

\* the selection is never written to storage
Persisted_Dropped(threadId, ok) == stored

\* line 404: context.storage.local.set('selectedThreadId', thread.id)
Persisted(threadId, ok) == IF ok THEN threadId ELSE stored

\* lines 403-416: storage.local.set answered or failed (failure is swallowed)
StorageSetResolve(c, ok) ==
    /\ chain[c].pc = "storageSet"
    /\ stored' = Persisted(chain[c].thread, ok)
    /\ chain' = [chain EXCEPT ![c] =
          [Logged(@, HostCall("storageSet", chain[c].thread, ok))
              EXCEPT !.pc = "editMessage",
                     !.content = Content("selected", chain[c].upd.param, chain[c].thread)]]
    /\ UNCHANGED <<config, isPolling, pollingTimer, lastUpdateId, selectedThreadId,
                   cachedThreads, cachedMessages, messagePageIndex, activationTimer,
                   subscribed, dispatched, startTick, stopCalled, refreshed, outText,
                   replace, trail, reply, keyboard>>

\* lines 426-433, 501-507: chat.getActiveThread() answered (Null: no active thread)
\* or failed; the call is outside every try block
GetActiveThreadResolve(c, ok, active) ==
    /\ chain[c].pc = "getActiveThread"
    /\ IF ~ok
       THEN Throw(c, chain[c])
       ELSE /\ chain' = [chain EXCEPT ![c] =
                  LET r == Logged(@, HostCall("getActiveThread", active, TRUE))
                  IN  IF r.upd.action = "current"
                      THEN [r EXCEPT !.pc = "editMessage",
                                     !.content = Content("current", active, 1)]
                      ELSE IF NoThread(active)
                      THEN [r EXCEPT !.pc = "editMessage",
                                     !.content = Keyed(Content("nothread", 0, 0),
                                                       NoThreadKeyboard)]
                      ELSE MessagesTry(r, active)]
            /\ UNCHANGED pollingTimer
    /\ UNCHANGED <<config, isPolling, lastUpdateId, selectedThreadId, cachedThreads,
                   cachedMessages, messagePageIndex, stored, activationTimer, subscribed,
                   dispatched, startTick, stopCalled, refreshed, outText, replace, trail,
                   reply, keyboard>>

\* lines 437-452, 462-467: chat.getMessages(threadId) answered or failed
GetMessagesResolve(c, ok, messages) ==
    /\ chain[c].pc = "getMessages"
    /\ messages \in MessageLists(chain[c].thread)
    /\ IF ok
       THEN /\ cachedMessages' = messages
            /\ chain' = [chain EXCEPT ![c] =
                  [Logged(@, HostCall("getMessages", chain[c].thread, TRUE))
                      EXCEPT !.pc = "editMessage",
                             !.content = MessageListContent(messages,
                                                            PageOf(chain[c].upd.param))]]
       ELSE /\ chain' = [chain EXCEPT ![c] =
                  [Logged(@, HostCall("getMessages", chain[c].thread, FALSE))
                      EXCEPT !.pc = "sendMessage",
                             !.content = Content("error", 0, 0), !.ackText = "Error",
                             !.fetchFailed = TRUE]]
            /\ UNCHANGED cachedMessages
    /\ UNCHANGED <<config, isPolling, pollingTimer, lastUpdateId, selectedThreadId,
                   cachedThreads, messagePageIndex, stored, activationTimer, subscribed,
                   dispatched, startTick, stopCalled, refreshed, outText, replace, trail,
                   reply, keyboard>>

\* lines 211-228: editMessageText answered; the caller goes on
EditMessageResolve(c, ok) ==
    /\ chain[c].pc = "editMessage"
    /\ chain' = [chain EXCEPT ![c] =
          LET r == Logged(chain[c], Call("editMessage", chain[c].content, ok))
          IN  IF FallsBack(r.content, ok)
              THEN [r EXCEPT !.pc = "sendMessage"]
              ELSE [r EXCEPT !.pc = "answerCallback", !.ackText = AckTextOf(r.upd.action)]]
    /\ UNCHANGED <<config, isPolling, pollingTimer, lastUpdateId, selectedThreadId,
                   cachedThreads, cachedMessages, messagePageIndex, stored,
                   activationTimer, subscribed, dispatched, startTick, stopCalled,
                   refreshed, outText, replace, trail, reply, keyboard>>

\* lines 189-209: sendMessage answered; the caller goes on
SendMessageResolve(c, ok) ==
    /\ chain[c].pc = "sendMessage"
    /\ ok \in SendResults
    /\ chain' = [chain EXCEPT ![c] =
          LET r == Logged(chain[c], Call("sendMessage", chain[c].content, ok))
          IN  IF r.upd.kind = "callback"
              THEN [r EXCEPT !.pc = "answerCallback",
                             !.ackText = IF r.fetchFailed THEN "Error" ELSE ""]
              ELSE Return(r)]
    /\ UNCHANGED <<config, isPolling, pollingTimer, lastUpdateId, selectedThreadId,
                   cachedThreads, cachedMessages, messagePageIndex, stored,
                   activationTimer, subscribed, dispatched, startTick, stopCalled,
                   refreshed, outText, replace, trail, reply, keyboard>>

\* lines 325-338: the cache indices the message buttons of a keyboard stand for
ShownIdx(rows) == {rows[j][1].arg : j \in {k \in 1..Len(rows) : rows[k][1].verb = "v"}}

\* history of lines 420-461: what the page action of r did, with the cache it
\* met at dispatch
PageEntry(r) ==
    [id |-> r.batch[r.i], page |-> PageOf(r.upd.param), kind |-> r.content.kind,
     shown |-> ShownIdx(r.content.keys), kept |-> cachedMessages = r.pre[3]]

\* history: the last three page actions that met a non-empty message cache
Trailed(r) ==
    IF r.upd.kind = "callback" /\ r.upd.hasMsg /\ r.upd.action = "messages" /\ r.pre[3] # <<>>
    THEN SubSeq(trail, Max(1, Len(trail) - 1), Len(trail)) \o <<PageEntry(r)>>
    ELSE trail

\* lines 244-249: answerCallbackQuery answered; handleCallback returns
AnswerCallbackResolve(c) ==
    /\ chain[c].pc = "answerCallback"
    /\ trail' = Trailed(chain[c])
    /\ chain' = [chain EXCEPT ![c] =
          Return(Logged(chain[c], Call("answerCallback", Content("ack", 0, 0), TRUE)))]
    /\ UNCHANGED <<config, isPolling, pollingTimer, lastUpdateId, selectedThreadId,
                   cachedThreads, cachedMessages, messagePageIndex, stored,
                   activationTimer, subscribed, dispatched, startTick, stopCalled,
                   refreshed, outText, replace, reply, keyboard>>

\* ------------------------------------------------------ keyboard pages
\* lines 280-309: a thread page is built from the thread cache
RenderThreadsPage(page) ==
    /\ keyboard' = [fn |-> "threads", page |-> page, rows |-> createThreadsKeyboard(page)]
    /\ UNCHANGED <<config, isPolling, pollingTimer, lastUpdateId, selectedThreadId,
                   cachedThreads, cachedMessages, messagePageIndex, stored,
                   activationTimer, subscribed, chain, dispatched, startTick,
                   stopCalled, refreshed, outText, replace, trail, reply>>

\* lines 312-363: a message page is built from the message cache
RenderMessagesPage(page) ==
    /\ keyboard' = [fn |-> "messages", page |-> page, rows |-> createMessagesKeyboard(page)]
    /\ UNCHANGED <<config, isPolling, pollingTimer, lastUpdateId, selectedThreadId,
                   cachedThreads, cachedMessages, messagePageIndex, stored,
                   activationTimer, subscribed, chain, dispatched, startTick,
                   stopCalled, refreshed, outText, replace, trail, reply>>

\* ------------------------------------------------------ host reply event
\* line 650: if (selectedThreadId && threadId !== selectedThreadId) return;
ReplyFiltered(threadId) == selectedThreadId # Null /\ threadId # selectedThreadId

\* the thread of the reply becomes the selection
SelectionAfterReply_Adopt(threadId) == threadId

\* lines 647-662: the handler reads selectedThreadId and assigns no variable
SelectionAfterReply(threadId) == selectedThreadId

\* lines 647-662: an assistant reply of the host arrives, up to the await of
\* sendMessage; one run of the handler at a time
DidReceive(threadId, hasText) ==
    /\ subscribed
    /\ reply.pc = "idle"
    /\ reply' = IF ReplyFiltered(threadId) \/ ~hasText THEN reply
                ELSE [pc |-> "sendMessage"]
    /\ selectedThreadId' = SelectionAfterReply(threadId)
    /\ UNCHANGED <<config, isPolling, pollingTimer, lastUpdateId,
                   cachedThreads, cachedMessages, messagePageIndex, stored,
                   activationTimer, subscribed, chain, dispatched, startTick,
                   stopCalled, refreshed, outText, replace, trail, keyboard>>

\* lines 662, 189-209: the sendMessage of the reply handler answered
ReplySendResolve(ok) ==
    /\ reply.pc = "sendMessage"
    /\ ok \in SendResults
    /\ reply' = IdleReply
    /\ UNCHANGED <<config, isPolling, pollingTimer, lastUpdateId, selectedThreadId,
                   cachedThreads, cachedMessages, messagePageIndex, stored,
                   activationTimer, subscribed, chain, dispatched, startTick,
                   stopCalled, refreshed, outText, replace, trail, keyboard>>

\* ------------------------------------------------------- replaceMessage
\* the ids of the messages replaceMessage can be asked to replace
MessageIds == 1..MaxMessageId

\* lines 231-233: replaceMessage(messageId, ...) up to the await of sendMessage
ReplaceCall(messageId) ==
    /\ replace.pc \in {"idle", "returned"}
    /\ replace' = [pc |-> "sendMessage", messageId |-> messageId, out |-> <<>>,
                   result |-> FALSE]
    /\ UNCHANGED <<config, isPolling, pollingTimer, lastUpdateId, selectedThreadId,
                   cachedThreads, cachedMessages, messagePageIndex, stored,
                   activationTimer, subscribed, chain, dispatched, startTick,
                   stopCalled, refreshed, outText, trail, reply, keyboard>>

\* the old message is deleted whatever became of the new one
DeletesAfter_Always(result) == TRUE

\* line 234: if (result)
DeletesAfter(result) == result

\* lines 233-234, 189-209: sendMessage returned its result
ReplaceSendResolve(ok) ==
    /\ replace.pc = "sendMessage"
    /\ ok \in SendResults
    /\ replace' = [replace EXCEPT
                      !.pc = IF DeletesAfter(ok) THEN "deleteMessage" ELSE "returned",
                      !.out = Append(@, Call("sendMessage", Content("new", 0, 0), ok)),
                      !.result = ok]
    /\ UNCHANGED <<config, isPolling, pollingTimer, lastUpdateId, selectedThreadId,
                   cachedThreads, cachedMessages, messagePageIndex, stored,
                   activationTimer, subscribed, chain, dispatched, startTick,
                   stopCalled, refreshed, outText, trail, reply, keyboard>>

\* lines 236-241: the deleteMessage request answered, its answer is not looked at
ReplaceDeleteResolve(ok) ==
    /\ replace.pc = "deleteMessage"
    /\ replace' = [replace EXCEPT
                      !.pc = "returned",
                      !.out = Append(@, Call("deleteMessage",
                                             Content("old", replace.messageId, 0), ok))]
    /\ UNCHANGED <<config, isPolling, pollingTimer, lastUpdateId, selectedThreadId,
                   cachedThreads, cachedMessages, messagePageIndex, stored,
                   activationTimer, subscribed, chain, dispatched, startTick,
                   stopCalled, refreshed, outText, trail, reply, keyboard>>

\* ------------------------------------------------------- text ceilings
\* line 478: the ceiling of a message body shown in a message detail
DetailCeiling == 3500

\* line 656: the ceiling of an assistant reply that is forwarded
ReplyCeiling == 4000

\* a text of len units: how many of its leading units are there, and whether
\* the truncation marker follows them
TextOf(len) == [units |-> len, marker |-> FALSE]

\* lines 479, 657: t.substring(0, n)
Substring(t, n) == [t EXCEPT !.units = Min(n, t.units)]

\* lines 479, 657: ... + '\n\n... (truncated)'
WithMarker(t) == [t EXCEPT !.marker = TRUE]

\* a text that just reaches the ceiling is cut as well
TooLong_Inclusive(t, ceiling) == t.units >= ceiling

\* lines 478, 656: if (text.length > ceiling)
TooLong(t, ceiling) == t.units > ceiling

\* lines 477-480, 655-658: the text handed to convertToTelegramHtml
Truncated(t, ceiling) ==
    IF TooLong(t, ceiling) THEN WithMarker(Substring(t, ceiling)) ELSE t

\* the lengths of the texts: short ones and those around the two ceilings
Lengths == {0, 1} \cup {c + d : c \in {DetailCeiling, ReplyCeiling}, d \in (-1)..MaxOver}

\* lines 476-483: the body of a message is prepared for the message detail
DetailText(len) ==
    /\ outText' = [fn |-> "detail", len |-> len, sent |-> Truncated(TextOf(len), DetailCeiling)]
    /\ UNCHANGED <<config, isPolling, pollingTimer, lastUpdateId, selectedThreadId,
                   cachedThreads, cachedMessages, messagePageIndex, stored,
                   activationTimer, subscribed, chain, dispatched, startTick,
                   stopCalled, refreshed, replace, trail, reply, keyboard>>

\* lines 652-661: an assistant reply is prepared for forwarding
ReplyText(len) ==
    /\ outText' = [fn |-> "reply", len |-> len, sent |-> Truncated(TextOf(len), ReplyCeiling)]
    /\ UNCHANGED <<config, isPolling, pollingTimer, lastUpdateId, selectedThreadId,
                   cachedThreads, cachedMessages, messagePageIndex, stored,
                   activationTimer, subscribed, chain, dispatched, startTick,
                   stopCalled, refreshed, replace, trail, reply, keyboard>>

\* ------------------------------------------------------- specifications
\* the steps of a chain other than the answer to getUpdates
HandlerStep(c) ==
    \/ DeleteWebhookResolve(c)
    \/ SetMyCommandsResolve(c)
    \/ \E ok \in BOOLEAN : StorageGetResolve(c, ok)
    \/ TimerFires(c)
    \/ PollLoopEnd(c)
    \/ \E u \in Updates : Dispatch(c, u)
    \/ \E ok \in BOOLEAN, listing \in Listings : ListThreadsResolve(c, ok, listing)
    \/ \E ok \in BOOLEAN : StorageSetResolve(c, ok)
    \/ \E ok \in BOOLEAN, active \in ActiveThreads : GetActiveThreadResolve(c, ok, active)
    \/ \E ok \in BOOLEAN, messages \in UNION {MessageLists(t) : t \in Threads} :
          GetMessagesResolve(c, ok, messages)
    \/ \E ok \in BOOLEAN : EditMessageResolve(c, ok)
    \/ \E ok \in BOOLEAN : SendMessageResolve(c, ok)
    \/ AnswerCallbackResolve(c)

\* the remote source answers with any batch of pending updates
ChainStep(c) ==
    \/ HandlerStep(c)
    \/ \E batch \in Batches(1) : GetUpdatesResolve(c, batch)

\* the plugin as activate() wires it: one delayed start, dispose at any time
Next ==
    \/ ActivationTimerFires
    \/ Dispose
    \/ \E c \in Chains : ChainStep(c)

Spec == Init /\ [][Next]_vars

\* the session loop of the configured plugin with startPolling callable again
ApiInit ==
    /\ Init
    /\ config.token
    /\ config.chatId

NextApi ==
    \/ Next
    \/ StartCall

SpecApi == ApiInit /\ [][NextApi]_vars

\* the configured plugin with nothing stored that is never disposed, where every pending answer
\* eventually arrives and every armed timer eventually fires
LiveInit ==
    /\ Init
    /\ config = [token |-> TRUE, chatId |-> TRUE, almaThreadId |-> Null]
    /\ stored = Null

LiveNext ==
    \/ ActivationTimerFires
    \/ \E c \in Chains : ChainStep(c)

LiveSpec == LiveInit /\ [][LiveNext]_vars /\ WF_vars(\E c \in Chains : ChainStep(c))

\* the threads an assistant reply of the host can belong to
ReplyThreads == {1, MaxThreads}

SessionStep(c) ==
    \/ HandlerStep(c)
    \/ \E listing \in LongListings : ListThreadsResolve(c, TRUE, listing)
    \/ \E batch \in UNION {Arrivals(k) : k \in 1..(MaxActions + 1)} : GetUpdatesInTurn(c, batch)

\* the configured plugin over a conversation of MaxActions updates, with the
\* assistant replies of the host arriving in between
SessionNext ==
    \/ ActivationTimerFires
    \/ \E c \in Chains : SessionStep(c)
    \/ \E threadId \in ReplyThreads, hasText \in BOOLEAN : DidReceive(threadId, hasText)
    \/ \E ok \in BOOLEAN : ReplySendResolve(ok)

SpecSession == ApiInit /\ [][SessionNext]_vars

\* the start and the poll cycles of a plugin that no update ever reaches
StartStep(c) ==
    \/ DeleteWebhookResolve(c)
    \/ SetMyCommandsResolve(c)
    \/ \E ok \in BOOLEAN : StorageGetResolve(c, ok)
    \/ GetUpdatesResolve(c, <<>>)
    \/ PollLoopEnd(c)
    \/ TimerFires(c)

StartNext ==
    \/ ActivationTimerFires
    \/ Dispose
    \/ \E c \in Chains : StartStep(c)

SpecStart == Init /\ [][StartNext]_vars

\* replaceMessage called again and again, under every configuration
ReplaceNext ==
    \/ \E messageId \in MessageIds : ReplaceCall(messageId)
    \/ \E ok \in BOOLEAN : ReplaceSendResolve(ok)
    \/ \E ok \in BOOLEAN : ReplaceDeleteResolve(ok)

SpecReplace == Init /\ [][ReplaceNext]_vars

\* message bodies and assistant replies of every length of Lengths
TextNext ==
    \/ \E len \in Lengths : DetailText(len)
    \/ \E len \in Lengths : ReplyText(len)

SpecText == Init /\ [][TextNext]_vars

\* the pages a navigation button or a typed callback can ask for
Pages == (-1)..MaxPage

\* the keyboard builders applied to caches of every size up to MaxCache
KeysInit ==
    /\ config = [token |-> TRUE, chatId |-> TRUE, almaThreadId |-> Null]
    /\ isPolling = FALSE
    /\ pollingTimer = Null
    /\ lastUpdateId = 0
    /\ selectedThreadId = Null
    /\ \E n \in 0..MaxCache :
          /\ cachedThreads = [k \in 1..n |-> k]
          /\ cachedMessages = [k \in 1..n |-> [thread |-> 1, k |-> k]]
    /\ messagePageIndex = 0
    /\ stored = Null
    /\ activationTimer = TRUE
    /\ subscribed = TRUE
    /\ chain = [c \in Chains |-> IdleChain]
    /\ dispatched = [u \in UpdateIds |-> 0]
    /\ startTick = FALSE
    /\ stopCalled = FALSE
    /\ refreshed = FALSE
    /\ outText = NoText
    /\ replace = IdleReplace
    /\ trail = <<>>
    /\ reply = IdleReply
    /\ keyboard = NoKeyboard

KeysNext ==
    \/ \E page \in Pages : RenderThreadsPage(page)
    \/ \E page \in Pages : RenderMessagesPage(page)

SpecKeys == KeysInit /\ [][KeysNext]_vars

\* ---------------------------------------------------------------- claims
\* the awaits of a handler: an update is being dispatched
HandlerPcs == {"listThreads", "storageSet", "getActiveThread", "getMessages",
               "editMessage", "sendMessage", "answerCallback"}

BatchDone(c) == chain[c].pc = "loop" /\ chain[c].i > Len(chain[c].batch)

\* C1: the update cursor never decreases, and when the for loop has run
\* through a whole batch the cursor is the maximum of its value at the fetch
\* and every update id of the batch.
C1_CursorMonotone ==
    [][/\ lastUpdateId' >= lastUpdateId
       /\ \A c \in Chains :
            BatchDone(c)' =>
               lastUpdateId' = Max(chain'[c].from - 1, SeqMax(chain'[c].batch))]_vars

C1_Witness ==
    /\ BatchDone(1)
    /\ chain[1].batch = <<2, 1>>
    /\ chain[1].from = 1
    /\ lastUpdateId = 2

\* C2: while an update is being dispatched the cursor is at least its id,
\* a fetch in flight carries the offset cursor+1, and no update id is
\* dispatched more than once.
C2_NoRedispatch ==
    /\ \A id \in 1..MaxUpdateId : dispatched[id] <= 1
    /\ \A c \in Chains :
         /\ chain[c].pc \in HandlerPcs => lastUpdateId >= chain[c].batch[chain[c].i]
         /\ chain[c].pc = "getUpdates" => chain[c].from = lastUpdateId + 1

C2_Witness ==
    /\ chain[1].pc = "getUpdates"
    /\ chain[1].outcome = "threw"
    /\ lastUpdateId = 1
    /\ dispatched[1] = 1

\* C3: at most one update is being dispatched, and the updates of a batch
\* whose dispatch has begun are exactly those before the position of the
\* for loop: they are taken one after the other in arrival order.
C3_OneAtATimeInOrder ==
    /\ Cardinality({c \in Chains : chain[c].pc \in HandlerPcs}) <= 1
    /\ \A c \in Chains :
         chain[c].pc \in HandlerPcs \cup {"loop"} =>
            \A j \in 1..Len(chain[c].batch) :
               dispatched[chain[c].batch[j]] >= 1
                  <=> (j < chain[c].i \/ (j = chain[c].i /\ chain[c].pc \in HandlerPcs))

C3_Witness ==
    /\ chain[1].pc \in HandlerPcs
    /\ chain[1].i = 2
    /\ chain[1].batch = <<2, 1>>
    /\ \A u \in 1..MaxUpdateId : dispatched[u] = 1

\* C4: a call of startPolling while polling is active changes nothing: no
\* request, no read of the stored selection, no second poll cycle.
C4_StartTwiceNoop ==
    [][(startTick' # startTick /\ isPolling) => UNCHANGED program]_vars

C4_Witness ==
    /\ isPolling
    /\ ~activationTimer
    /\ ~startTick
    /\ chain[1].pc = "getUpdates"
    /\ chain[2].pc = "unused"

\* C5: once stopPolling has been called and the loop has not been started
\* since, no timer of the poll cycle is pending: the tracked timer was
\* cleared and a cycle that was in flight ended without arming one.
C5_NoRescheduleAfterStop ==
    (stopCalled /\ ~isPolling) =>
        /\ pollingTimer = Null
        /\ \A c \in Chains : chain[c].pc # "timer"

C5_Witness ==
    /\ stopCalled
    /\ ~isPolling
    /\ chain[1].pc = "done"
    /\ chain[1].batch # <<>>

\* C6: after dispose() no timer of the plugin is pending and no getUpdates
\* request is issued.
C6_DisposeHaltsEverything ==
    [][stopCalled =>
         /\ ~activationTimer
         /\ \A c \in Chains :
              /\ chain[c].pc # "timer"
              /\ chain'[c].pc = "getUpdates" => chain[c].pc = "getUpdates"]_vars

\* C7: while polling is active every poll cycle ends with the timer of the
\* next cycle armed, and every armed timer starts the next cycle.
CycleInFlight == \E c \in Chains : chain[c].pc \in HandlerPcs \cup {"getUpdates", "loop"}

TimerArmed == \E c \in Chains : chain[c].pc = "timer"

C7_AlwaysReschedules ==
    /\ CycleInFlight ~> TimerArmed
    /\ TimerArmed ~> CycleInFlight

C7_Witness ==
    /\ isPolling
    /\ ~stopCalled
    /\ chain[1].pc = "timer"
    /\ chain[1].outcome = "threw"

\* C8: no failure of a host call made by a handler leaves the handler: no
\* poll cycle ends because a dispatch raised an error.
C8_HostFailuresContained ==
    \A c \in Chains : chain[c].outcome # "threw"

\* C9: when the thread or message fetch of an action failed, the callback
\* is answered with an error notice and the session state is what it was
\* when the dispatch began.
C9_FetchFailureKeepsState ==
    \A c \in Chains :
        (chain[c].pc = "answerCallback" /\ chain[c].fetchFailed) =>
            /\ chain[c].ackText \in {"Error loading threads", "Error"}
            /\ session = chain[c].pre

\* C10: when the handler of a callback has rendered by editMessage, a
\* failed edit is followed by exactly one sendMessage of the same content
\* and a successful edit by none.
Edits(out) == {k \in 1..Len(out) : out[k].op = "editMessage"}

Sends(out) == {k \in 1..Len(out) : out[k].op = "sendMessage"}

C10_EditThenFallback ==
    \A c \in Chains :
        chain[c].pc = "answerCallback" =>
            \A e \in Edits(chain[c].out) :
                IF chain[c].out[e].ok
                THEN Sends(chain[c].out) = {}
                ELSE /\ Cardinality(Sends(chain[c].out)) = 1
                     /\ \A k \in Sends(chain[c].out) :
                          chain[c].out[k].content = chain[c].out[e].content

\* a refresh callback that carries a message reference has just been dispatched
\* by chain c
RefreshStep(c) ==
    /\ chain[c].pc = "loop"
    /\ chain'[c].pc = "editMessage"
    /\ chain'[c].upd.action = "refresh"

\* C11: the dispatch of the refresh action leaves the thread cache and the
\* message cache empty and the selection unset, all in that one step,
\* whatever they held before.
C11_RefreshClearsAll ==
    [][\A c \in Chains :
         RefreshStep(c) => /\ cachedThreads' = <<>>
                           /\ cachedMessages' = <<>>
                           /\ selectedThreadId' = Null]_vars

C11_Witness ==
    /\ chain[1].content.kind = "refreshed"
    /\ chain[1].pre[1] # Null
    /\ chain[1].pre[2] # <<>>
    /\ chain[1].pre[3] # <<>>
    /\ session = <<Null, <<>>, <<>>, chain[1].pre[4]>>

\* chain c is handling a messages action for page 0
MessagesZero(c) ==
    /\ chain[c].upd.action = "messages"
    /\ PageOf(chain[c].upd.param) = 0

C13_ClearResetsPage ==
    [][(cachedMessages # <<>> /\ cachedMessages' = <<>>) => messagePageIndex' = 0]_vars

\* an in-bounds select callback has just been dispatched by chain c
SelectStep(c) ==
    /\ chain[c].pc = "loop"
    /\ chain'[c].pc = "storageSet"
    /\ chain'[c].upd.action = "select"

\* startPolling has just read the persisted selection
RestoreStep(c) ==
    /\ chain[c].pc = "storageGet"
    /\ chain'[c].pc # "storageGet"

\* C14 as stated: once set, the selection becomes unset only in the dispatch
\* of refresh and changes to another thread only in the dispatch of an
\* in-bounds select.
C14_SelectionOnlyByUser ==
    [][(selectedThreadId # Null /\ selectedThreadId' # selectedThreadId) =>
          \E c \in Chains :
              \/ RefreshStep(c) /\ selectedThreadId' = Null
              \/ SelectStep(c) /\ selectedThreadId' = chain'[c].thread]_vars

\* C14 amended: once set, the selection becomes unset only in the dispatch of
\* refresh and changes to another thread only in the dispatch of an in-bounds
\* select or, during start, when the persisted selection replaces it; no
\* other step of a handler, of the poll loop or of the reply handler of the
\* host touches it.
C14_SelectionOnlyByUserOrRestore ==
    [][(selectedThreadId # Null /\ selectedThreadId' # selectedThreadId) =>
          \E c \in Chains :
              \/ RefreshStep(c) /\ selectedThreadId' = Null
              \/ SelectStep(c) /\ selectedThreadId' = chain'[c].thread
              \/ RestoreStep(c) /\ stored # Null /\ selectedThreadId' = stored]_vars

C14_Witness ==
    /\ selectedThreadId # Null
    /\ reply.pc = "sendMessage"
    /\ chain[1].fetchFailed
    /\ chain[1].pre[1] = selectedThreadId
    /\ lastUpdateId > 1

\* C15: whenever a message list is rendered for the effective thread (the
\* selection, else the active thread of the host), every message of the
\* cache it is rendered from was fetched for that thread.
C15_ListFromOwnThread ==
    \A c \in Chains :
        chain[c].content.kind = "msglist" =>
            \A k \in 1..Len(cachedMessages) : cachedMessages[k].thread = chain[c].thread

\* C16: with the bot token or the target chat id missing from the
\* configuration, polling never becomes active: no chain ever leaves
\* startPolling's guard, so no getUpdates request is issued and no update is
\* dispatched.
C16_NoPollingUnconfigured ==
    ~(config.token /\ config.chatId) =>
        /\ ~isPolling
        /\ \A c \in Chains : chain[c].pc = "unused"
        /\ \A id \in UpdateIds : dispatched[id] = 0

\* the buttons of the keyboard built last, and its rows of the given verb
KeyboardButtons ==
    UNION {{keyboard.rows[j][k] : k \in 1..Len(keyboard.rows[j])} : j \in 1..Len(keyboard.rows)}

RowsOf(verb) == SelectSeq(keyboard.rows, LAMBDA row : row[1].verb = verb)

\* the number of pages of a cache of n entries
PageCount(n) == (n + 4) \div 5

\* C17: for a thread cache of N entries and a page p with 0 <= p < ceil(N/5),
\* the thread page has exactly min(5, N - 5p) entry rows, one button each,
\* for the cache indices 5p .. min(5p + 5, N) - 1 in cache order, each with
\* the callback select:<its cache index>.
C17_ThreadPageWindow ==
    (keyboard.fn = "threads" /\ keyboard.page >= 0
        /\ keyboard.page < PageCount(Len(cachedThreads))) =>
        LET p == keyboard.page
            N == Len(cachedThreads)
            rows == RowsOf("select")
        IN  /\ Len(rows) = Min(5, N - 5 * p)
            /\ rows = SubSeq(keyboard.rows, 1, Len(rows))
            /\ \A j \in 1..Len(rows) :
                 /\ Len(rows[j]) = 1
                 /\ rows[j][1].arg = 5 * p + j - 1
                 /\ rows[j][1].item = cachedThreads[5 * p + j]

C17_Witness ==
    /\ keyboard.fn = "threads"
    /\ keyboard.page = 2
    /\ Len(cachedThreads) = 12
    /\ Len(RowsOf("select")) = 2

\* a navigation button of the keyboard built last that leads to the given page
NavTo(verb, page) == \E b \in KeyboardButtons : b.verb = verb /\ b.arg = page

\* C18: on a thread page p over a cache of N entries the Prev control is
\* present iff p > 0 and the Next control iff 5p + 5 < N; on the pages
\* 0 .. ceil(N/5) - 1 the Next control is absent exactly on the last one.
C18_ThreadPageControls ==
    keyboard.fn = "threads" =>
        LET p == keyboard.page
            N == Len(cachedThreads)
        IN  /\ NavTo("threads", p - 1) <=> p > 0
            /\ NavTo("threads", p + 1) <=> 5 * p + 5 < N
            /\ (p >= 0 /\ p < PageCount(N)) =>
                  (~NavTo("threads", p + 1) <=> p = PageCount(N) - 1)

C18_Witness ==
    /\ keyboard.fn = "threads"
    /\ keyboard.page = 1
    /\ Len(cachedThreads) = 10
    /\ NavTo("threads", 0)
    /\ ~NavTo("threads", 2)

\* C19: for a message cache of N entries and a page p >= 0 the message page
\* lists exactly the cache indices max(0, N - 5(p + 1)) .. N - 5p - 1,
\* newest first, one button each, with the callback v:<i> where i is the
\* index of the message of the button in the cache.
C19_MessagePageWindow ==
    (keyboard.fn = "messages" /\ keyboard.page >= 0) =>
        LET p == keyboard.page
            N == Len(cachedMessages)
            lo == Max(0, N - 5 * (p + 1))
            hi == N - 5 * p - 1
            rows == RowsOf("v")
        IN  /\ Len(rows) = Max(0, hi - lo + 1)
            /\ rows = SubSeq(keyboard.rows, 1, Len(rows))
            /\ \A j \in 1..Len(rows) :
                 /\ Len(rows[j]) = 1
                 /\ rows[j][1].arg = hi - (j - 1)
                 /\ rows[j][1].item = cachedMessages[rows[j][1].arg + 1]

C19_Witness ==
    /\ keyboard.fn = "messages"
    /\ keyboard.page = 1
    /\ Len(cachedMessages) = 12
    /\ [j \in 1..Len(RowsOf("v")) |-> RowsOf("v")[j][1].arg] = <<6, 5, 4, 3, 2>>

\* C20: on a message page p over a cache of N entries the Older control,
\* with callback p:<p + 1>, is present iff the window start
\* max(0, N - 5(p + 1)) is above 0, and the Newer control, with callback
\* p:<p - 1>, iff p > 0.
C20_MessagePageControls ==
    (keyboard.fn = "messages" /\ keyboard.page >= 0) =>
        LET p == keyboard.page
            N == Len(cachedMessages)
        IN  /\ NavTo("p", p + 1) <=> Max(0, N - 5 * (p + 1)) > 0
            /\ NavTo("p", p - 1) <=> p > 0

C20_Witness ==
    /\ keyboard.fn = "messages"
    /\ keyboard.page = 1
    /\ Len(cachedMessages) = 12
    /\ NavTo("p", 2)
    /\ NavTo("p", 0)


\* three page actions dispatched one after the other, each with a non-empty
\* message cache: page p, page p - 1, page p
RoundTrip ==
    /\ Len(trail) = 3
    /\ trail[2].id = trail[1].id + 1
    /\ trail[3].id = trail[2].id + 1
    /\ trail[2].page = trail[1].page - 1
    /\ trail[3].page = trail[1].page

\* C21 as stated: with a non-empty message cache the page actions p, p - 1, p
\* show the same set of cache indices for page p both times, and none of the
\* three actions modifies the message cache
C21_RoundTripSameIndices ==
    RoundTrip =>
        /\ trail[3].shown = trail[1].shown
        /\ \A k \in 1..3 : trail[k].kept

\* C21 amended: none of three page actions dispatched in a row with a non-empty
\* message cache modifies the cache; each of them renders either a message page
\* or, with no selection and no active thread of the host, the no-thread
\* prompt; the first and the third, asking for the same page, show the same set
\* of cache indices whenever both render a message page
C21_RoundTripSameIndicesWhenRendered ==
    (/\ Len(trail) = 3
     /\ trail[2].id = trail[1].id + 1
     /\ trail[3].id = trail[2].id + 1
     /\ trail[3].page = trail[1].page) =>
        /\ \A k \in 1..3 : trail[k].kept /\ trail[k].kind \in {"msglist", "nothread"}
        /\ trail[1].kind = "msglist" /\ trail[3].kind = "msglist"
              => trail[3].shown = trail[1].shown

\* page 1, page 0 and page 1 again were rendered from a cache of more than one
\* page
C21_Witness ==
    /\ RoundTrip
    /\ trail[1].kind = "msglist"
    /\ trail[3].kind = "msglist"
    /\ trail[1].shown # {}
    /\ trail[2].shown # trail[1].shown
    /\ trail[2].kind = "msglist"

\* the calls of the host API `op` in a log of calls
HostCalls(out, op) == {k \in 1..Len(out) : out[k].op = op}

\* the handler of chain c has rendered and is about to acknowledge the tap
Rendered(c, action) ==
    /\ chain[c].pc = "answerCallback"
    /\ chain[c].upd.kind = "callback"
    /\ chain[c].upd.hasMsg
    /\ chain[c].upd.action = action

\* the messages action of chain c met no selection and the host reported no
\* active thread
NoEffectiveThread(c) ==
    /\ Rendered(c, "messages")
    /\ chain[c].pre[1] = Null
    /\ \E k \in HostCalls(chain[c].out, "getActiveThread") :
          chain[c].out[k] = HostCall("getActiveThread", Null, TRUE)

\* C22: when selectedThreadId is unset and the host reports no active thread, a
\* messages action renders the no-thread prompt, whose keyboard is the single
\* button threads:0, does not call getMessages and leaves the thread cache,
\* the message cache and the selection as they were at dispatch
C22_NoThreadPrompt ==
    \A c \in Chains :
        NoEffectiveThread(c) =>
            /\ Cardinality(Edits(chain[c].out)) = 1
            /\ \A e \in Edits(chain[c].out) :
                  /\ chain[c].out[e].content.kind = "nothread"
                  /\ chain[c].out[e].content.keys = << <<Button("threads", 0, NoMessage)>> >>
            /\ Sends(chain[c].out) = {}
            /\ HostCalls(chain[c].out, "getMessages") = {}
            /\ cachedThreads = chain[c].pre[2]
            /\ cachedMessages = chain[c].pre[3]
            /\ selectedThreadId = chain[c].pre[1]

\* the prompt was rendered over a loaded thread cache
C22_Witness ==
    /\ NoEffectiveThread(1)
    /\ cachedThreads # <<>>
    /\ chain[1].upd.param = 0

\* a select callback with a message reference
SelectUpdates == {u \in Updates : u.kind = "callback" /\ u.hasMsg /\ u.action = "select"}

\* C23: a select action with idx inside the bounds of the thread cache sets
\* selectedThreadId to the id of threadCache[idx] and writes that id to
\* storage, the selection being made also when the write fails; the dispatch
\* of select with idx outside the bounds, or not a number, changes neither
\* selectedThreadId nor storage
C23_SelectSetsAndPersists ==
    /\ [](\A c \in Chains :
            Rendered(c, "select") =>
               /\ InBounds(chain[c].upd.param, chain[c].pre[2])
               /\ selectedThreadId = chain[c].pre[2][chain[c].upd.param + 1]
               /\ Cardinality(HostCalls(chain[c].out, "storageSet")) = 1
               /\ \A k \in HostCalls(chain[c].out, "storageSet") :
                     /\ chain[c].out[k].content = Content("host", selectedThreadId, 0)
                     /\ chain[c].out[k].ok => stored = selectedThreadId)
    /\ [][\A c \in Chains, u \in SelectUpdates :
            (~InBounds(u.param, cachedThreads) /\ Dispatch(c, u))
               => UNCHANGED <<selectedThreadId, stored>>]_vars

\* thread MaxThreads was selected over another selection while the write to
\* storage failed
C23_Witness ==
    /\ Rendered(1, "select")
    /\ chain[1].upd.param = MaxParam
    /\ chain[1].pre[1] \notin {Null, selectedThreadId}
    /\ stored # selectedThreadId
    /\ \E k \in HostCalls(chain[1].out, "storageSet") : ~chain[1].out[k].ok

\* C24: a callback whose verb is not recognized, and a callback without a
\* message reference whatever its verb, is acknowledged only: when the handler
\* acknowledges it has called neither sendMessage nor editMessage nor the
\* host, the session state is what it was at dispatch, and the
\* acknowledgement itself changes neither the session state nor the cursor
\* nor the polling flag
C24_AcknowledgedOnly ==
    /\ [](\A c \in Chains :
            (/\ chain[c].upd.kind = "callback"
             /\ chain[c].pc \in HandlerPcs
             /\ ~chain[c].upd.hasMsg \/ chain[c].upd.action = "other") =>
                /\ chain[c].pc = "answerCallback"
                /\ chain[c].out = <<>>
                /\ chain[c].ackText = ""
                /\ session = chain[c].pre)
    /\ [][\A c \in Chains :
            (/\ chain[c].upd.kind = "callback"
             /\ chain[c].pc = "answerCallback"
             /\ ~chain[c].upd.hasMsg \/ chain[c].upd.action = "other"
             /\ chain'[c].pc # "answerCallback") =>
                /\ UNCHANGED <<session, lastUpdateId, isPolling>>
                /\ chain'[c].pc = "loop"]_vars

\* a refresh without a message reference is acknowledged over loaded caches
\* and a selection
C24_Witness ==
    /\ chain[1].pc = "answerCallback"
    /\ chain[1].upd.kind = "callback"
    /\ ~chain[1].upd.hasMsg
    /\ chain[1].upd.action = "refresh"
    /\ cachedThreads # <<>>
    /\ cachedMessages # <<>>
    /\ selectedThreadId # Null

\* the calls of `op` in a log of calls
CallsOf(out, op) == {k \in 1..Len(out) : out[k].op = op}

\* C25: replaceMessage calls sendMessage first and issues deleteMessage, for
\* the old message, only after sendMessage has returned success; when the
\* send fails it returns without a deleteMessage call
C25_DeleteOnlyAfterSend ==
    /\ replace.out # <<>> => replace.out[1].op = "sendMessage"
    /\ \A k \in CallsOf(replace.out, "deleteMessage") :
          /\ k = 2
          /\ replace.out[1].ok
          /\ replace.out[k].content.a = replace.messageId
    /\ replace.pc = "deleteMessage" => replace.result
    /\ (replace.pc = "returned" /\ ~replace.result)
          => /\ CallsOf(replace.out, "deleteMessage") = {}
             /\ Len(replace.out) = 1
    /\ (replace.pc = "returned" /\ replace.result) => Len(replace.out) = 2

\* a send that failed although the plugin is configured, with nothing deleted
C25_Witness ==
    /\ replace.pc = "returned"
    /\ ~replace.result
    /\ config.token /\ config.chatId
    /\ replace.messageId = MaxMessageId
    /\ replace.out = <<Call("sendMessage", Content("new", 0, 0), FALSE)>>

\* the threads action of chain c has cached the listing of a host with n threads
Listed(c, n) ==
    /\ chain[c].upd.kind = "callback"
    /\ chain[c].upd.action = "threads"
    /\ chain[c].pc \in {"editMessage", "answerCallback"}
    /\ \E k \in HostCalls(chain[c].out, "listThreads") :
          chain[c].out[k] = HostCall("listThreads", n, TRUE)

\* C26: the thread cache never holds more than 50 entries, and after a
\* successful threads action it is the first min(50, n) entries of the
\* listing of the n threads of the host, in the order of the host
C26_ThreadCachePrefix ==
    /\ Len(cachedThreads) <= 50
    /\ \A c \in Chains, n \in {0, MaxThreads, ThreadCacheLimit + MaxExcess} :
          Listed(c, n) =>
              /\ Len(cachedThreads) = Min(50, n)
              /\ \A j \in 1..Len(cachedThreads) : cachedThreads[j] = HostListing(n)[j]

\* a listing of more than 50 threads was cached over a shorter one
C26_Witness ==
    /\ Listed(1, ThreadCacheLimit + MaxExcess)
    /\ Len(cachedThreads) = 50
    /\ chain[1].pre[2] # <<>>
    /\ chain[1].pc = "answerCallback"

\* the thread the messages action of chain c works on: the selection at
\* dispatch, else the active thread the host reported, else Null
EffectiveThread(c) ==
    IF chain[c].pre[1] # Null THEN chain[c].pre[1]
    ELSE IF HostCalls(chain[c].out, "getActiveThread") = {} THEN Null
    ELSE chain[c].out[CHOOSE k \in HostCalls(chain[c].out, "getActiveThread") : TRUE].content.a

\* a messages action with a message reference is being handled by chain c
MessagesAction(c) ==
    /\ chain[c].upd.kind = "callback"
    /\ chain[c].upd.hasMsg
    /\ chain[c].upd.action = "messages"
    /\ chain[c].pc \in HandlerPcs

\* C27: a messages action calls getMessages of the host if and only if an
\* effective thread exists and the message cache is empty when the action is
\* dispatched, and then once and for the effective thread; with a non-empty
\* message cache the cache stays what it was and the host is not asked
C27_FetchIffEmptyCache ==
    \A c \in Chains :
        MessagesAction(c) =>
            /\ (chain[c].pc = "getMessages" \/ HostCalls(chain[c].out, "getMessages") # {})
                  => /\ EffectiveThread(c) # Null
                     /\ chain[c].pre[3] = <<>>
            /\ (/\ chain[c].pc = "answerCallback"
                 /\ EffectiveThread(c) # Null
                 /\ chain[c].pre[3] = <<>>)
                  => HostCalls(chain[c].out, "getMessages") # {}
            /\ Cardinality(HostCalls(chain[c].out, "getMessages")) <= 1
            /\ \A k \in HostCalls(chain[c].out, "getMessages") :
                  chain[c].out[k].content.a = EffectiveThread(c)
            /\ chain[c].pre[3] # <<>> => cachedMessages = chain[c].pre[3]

\* the messages of the active thread of the host were fetched into the empty
\* cache
C27_Witness ==
    /\ MessagesAction(1)
    /\ chain[1].pc = "answerCallback"
    /\ chain[1].pre[1] = Null
    /\ chain[1].pre[3] = <<>>
    /\ EffectiveThread(1) = MaxThreads
    /\ cachedMessages # <<>>
    /\ \E k \in HostCalls(chain[1].out, "getMessages") : chain[1].out[k].ok

\* a view callback with a message reference
ViewUpdates == {u \in Updates : u.kind = "callback" /\ u.hasMsg /\ Branch(u.action) = "view"}

\* C28: a view action with idx inside the bounds of the message cache leaves
\* the session state as it was at dispatch and renders, in one edit, the
\* detail with a back button m:<page>, the page being messagePageIndex at
\* dispatch; the dispatch of a view with idx outside the bounds returns at
\* once, rendering nothing and changing no state
C28_ViewKeepsState ==
    /\ [](\A c \in Chains :
            Rendered(c, "view") =>
               /\ InBounds(chain[c].upd.param, chain[c].pre[3])
               /\ session = chain[c].pre
               /\ Sends(chain[c].out) = {}
               /\ Cardinality(Edits(chain[c].out)) = 1
               /\ \A e \in Edits(chain[c].out) :
                     /\ chain[c].out[e].content.kind = "detail"
                     /\ chain[c].out[e].content.a = chain[c].upd.param
                     /\ chain[c].out[e].content.keys[1]
                           = <<Button("m", chain[c].pre[4], NoMessage)>>)
    /\ [][\A c \in Chains, u \in ViewUpdates :
            (~InBounds(u.param, cachedMessages) /\ Dispatch(c, u))
               => /\ UNCHANGED <<session, stored, isPolling>>
                  /\ chain'[c].pc = "loop"
                  /\ chain'[c].out = <<>>]_vars

\* a message was viewed from a page other than the first
C28_Witness ==
    /\ Rendered(1, "view")
    /\ chain[1].pre[4] = MaxParam
    /\ chain[1].upd.param = 0
    /\ \E e \in Edits(chain[1].out) : chain[1].out[e].ok

\* the operations of a log of calls, in the order of the calls
OpsOf(out) == [k \in 1..Len(out) |-> out[k].op]

\* C29: the first getUpdates request of a start is issued in the step in
\* which the storage read has completed, after deleteWebhook, setMyCommands
\* and the storage read in that order, and whenever the storage read has
\* completed, successfully or not, with polling still on, the poll cycle
\* starts
C29_StartOrder ==
    /\ [][\A c \in Chains :
            (chain[c].from = 0 /\ chain'[c].pc = "getUpdates") =>
                /\ chain[c].pc = "storageGet"
                /\ OpsOf(chain'[c].out) = <<"deleteWebhook", "setMyCommands", "storageGet">>]_vars
    /\ [][\A c \in Chains :
            (chain[c].pc = "storageGet" /\ chain'[c].pc # "storageGet" /\ isPolling) =>
                chain'[c].pc = "getUpdates"]_vars
    /\ [](\A c \in Chains :
            chain[c].from = 0 => chain[c].pc \in {"unused", "deleteWebhook", "setMyCommands",
                                                 "storageGet", "done"})

\* the read of the persisted selection failed and the first poll cycle has
\* started without a selection
C29_Witness ==
    /\ chain[1].pc = "getUpdates"
    /\ OpsOf(chain[1].out) = <<"deleteWebhook", "setMyCommands", "storageGet">>
    /\ stored # Null
    /\ selectedThreadId = Null
    /\ isPolling

\* C30: no step of the handler of the assistant replies of the host, whether
\* it filters the reply out, starts to forward it or gets the answer to its
\* sendMessage, changes the selection, the caches, the page, the cursor or
\* the polling flag, whatever the poll loop is doing at that moment: a step
\* that moves the reply handler is no step of the poll loop, and a step that
\* is no step of the poll loop leaves all of them as they are
C30_ReplyHandlerReadsOnly ==
    [][/\ reply' # reply => chain' = chain
       /\ chain' = chain => UNCHANGED <<session, lastUpdateId, isPolling>>]_vars

\* a reply is being forwarded while a handler of the poll loop waits for the
\* host, with no selection made
C30_Witness ==
    /\ reply.pc = "sendMessage"
    /\ chain[1].pc \in {"getActiveThread", "getMessages", "listThreads"}
    /\ selectedThreadId = Null
    /\ cachedThreads # <<>>
    /\ lastUpdateId > 1

\* C31: a message body of more than 3500 units, and an assistant reply of
\* more than 4000 units, is handed on as exactly its first 3500 / 4000 units
\* followed by the truncation marker; a text at or below the ceiling is
\* handed on as it is
C31_TruncatedAtCeiling ==
    outText.fn # "none" =>
        LET ceiling == IF outText.fn = "detail" THEN 3500 ELSE 4000
        IN  IF outText.len > ceiling
            THEN outText.sent = [units |-> ceiling, marker |-> TRUE]
            ELSE outText.sent = [units |-> outText.len, marker |-> FALSE]

\* a reply of more than 4000 units was cut to 4000 units and the marker
C31_Witness ==
    /\ outText.fn = "reply"
    /\ outText.len = 4000 + MaxOver
    /\ outText.sent = [units |-> 4000, marker |-> TRUE]

\* a callback update
CallbackUpdates == {u \in Updates : u.kind = "callback"}

\* C32: every callback that is dispatched is acknowledged exactly once by
\* the end of its dispatch: its handler does not return in the step that
\* dispatches it, and the step that ends the handler is its one and only
\* answerCallback
C32_AcknowledgedOnce ==
    /\ [][\A c \in Chains, u \in CallbackUpdates :
            Dispatch(c, u) => chain'[c].pc \in HandlerPcs]_vars
    /\ [][\A c \in Chains :
            (/\ chain[c].pc \in HandlerPcs
             /\ chain[c].upd.kind = "callback"
             /\ chain'[c].pc \notin HandlerPcs) =>
                /\ chain[c].pc = "answerCallback"
                /\ CallsOf(chain[c].out, "answerCallback") = {}]_vars

\* C33: once stopPolling has been called, and polling has not been started
\* again, no update is dispatched any more: the updates of a batch that was
\* being fetched or processed at that moment change no session state and
\* cause no send and no edit
C33_NoDispatchAfterStop ==
    [][(stopCalled /\ ~isPolling) =>
          /\ dispatched' = dispatched
          /\ \A c \in Chains : chain'[c].pc \in HandlerPcs => chain[c].pc \in HandlerPcs]_vars

\* the chains that stand inside a poll cycle: at the fetch, in the for loop or
\* in a handler
InFlight == {c \in Chains : chain[c].pc \in HandlerPcs \cup {"getUpdates", "loop"}}

C35_NoUpdateLost ==
    [][\A c \in Chains :
          (/\ chain[c].pc \in HandlerPcs \cup {"loop"}
           /\ chain'[c].pc \notin HandlerPcs \cup {"loop"}) =>
              \A j \in 1..Len(chain[c].batch) :
                 \/ dispatched'[chain[c].batch[j]] >= 1
                 \/ chain[c].batch[j] > lastUpdateId']_vars

\* C36: whenever a message detail is rendered for cache index idx, the page
\* its back button leads to is the page of the message list whose window
\* holds idx, whatever the taps before, taps on older menu messages included
C36_BackToPageOfMessage ==
    \A c \in Chains :
       Rendered(c, "view") =>
          \A e \in Edits(chain[c].out) :
             chain[c].out[e].content.a
                \in ShownIdx(MessagesKeyboard(cachedMessages,
                                              chain[c].out[e].content.keys[1][1].arg))

\* C37: after every completed action that sets or clears the selection and
\* whose storage writes, if any, succeeded, the selection held in durable
\* storage equals selectedThreadId, so that a new activation restores the
\* selection the user last left, the unset selection after refresh included
C37_StoredSelectionInStep ==
    \A c \in Chains :
       (/\ Rendered(c, "select") \/ Rendered(c, "refresh")
        /\ \A k \in HostCalls(chain[c].out, "storageSet") : chain[c].out[k].ok)
          => stored = selectedThreadId

\* C38: an update that comes from a chat other than the configured one, a
\* text message or a callback query, changes no session state and causes no
\* send and no edit: its dispatch returns at once
C38_ForeignChatIgnored ==
    [][\A c \in Chains, u \in {v \in Updates : ~v.chatOk} :
          Dispatch(c, u) =>
             /\ UNCHANGED <<session, stored>>
             /\ chain'[c].pc = "loop"
             /\ chain'[c].out = <<>>]_vars

\* the pages of the message list on which cache index i has a v: button
PagesShowing(i) ==
    {p \in 0..(PageCount(Len(cachedMessages)) - 1) :
        i \in ShownIdx(createMessagesKeyboard(p))}

\* C39: the windows of the pages 0 .. ceil(N/5) - 1 of a message cache of N
\* entries partition the cache: every index 0 .. N - 1 has a v: button on
\* exactly one of these pages, once, and every v:<i> button of a rendered
\* message page has 0 <= i < N
C39_PagesPartitionCache ==
    keyboard.fn = "messages" =>
        LET N == Len(cachedMessages)
            rows == RowsOf("v")
            shown == ShownIdx(keyboard.rows)
        IN  /\ shown \subseteq 0..(N - 1)
            /\ Len(rows) = Cardinality(shown)
            /\ \A i \in 0..(N - 1) : Cardinality(PagesShowing(i)) = 1
            /\ keyboard.page \in 0..(PageCount(N) - 1) =>
                   \A i \in shown : PagesShowing(i) = {keyboard.page}
            /\ keyboard.page \notin 0..(PageCount(N) - 1) => shown = {}

\* the oldest page of a cache of 12 messages has been rendered: it shows the
\* two messages left over by the two full pages
C39_Witness ==
    /\ keyboard.fn = "messages"
    /\ keyboard.page = 2
    /\ Len(cachedMessages) = 12
    /\ ShownIdx(keyboard.rows) = {0, 1}
    /\ PagesShowing(5) = {1}

====
